---- MODULE Spec2Model ----
(***************************************************************************)
(* Model of hoomd.dump.getar (src/hoomd/dump.py): expansion of composite   *)
(* property names, and construction of a getar dumper, which resolves the  *)
(* requested properties, validates them, opens the archive writer and      *)
(* registers every property with it.                                       *)
(***************************************************************************)
EXTENDS Integers, Sequences, FiniteSets, TLC

VARIABLES
    vals,          \* _expandNames: the request sequence given to it
    result,        \* _expandNames(vals)
    again,         \* _expandNames(result)
    epc,           \* position of the expansion run
    static,        \* __init__ argument: list of static requests
    dynamic,       \* __init__ argument: dict {request: period}, in insertion order
    mode,          \* __init__ argument: mode token
    fileExists,    \* os.path.isfile(filename)
    num_ranks,     \* hoomd.context.current.device.comm.num_ranks
    register,      \* __init__ argument _register
    pc,            \* position inside __init__
    self_static,   \* self._static
    self_dynamic,  \* self._dynamic, in insertion order
    prop,          \* the local variable prop of __init__
    dumpMode,      \* the local variable dumpMode of __init__
    handle,        \* state of self.cpp_analyzer (the archive writer)
    todo,          \* elements of set(self._static) not yet iterated
    dynIdx,        \* next entry of self._dynamic to register
    calls,         \* calls issued to the archive writer, in order
    analyzer,      \* registration of the dumper as a hoomd analyzer
    error,         \* the exception that left __init__, if any
    entry,         \* the entry point called: getar, getar.simple or getar.immediate
    timestep,      \* hoomd.context.current.system.getCurrentTimeStep()
    ops,           \* number of calls made on the constructed dumper
    outcome,       \* the last call made on the dumper, and how it ended
    system,        \* hoomd.context.current.system
    system_definition, \* hoomd.context.current.system_definition
    icalls,        \* engine calls made by the last init call, in order
    icall,         \* the last init call: function, arguments, result
    icount         \* number of init calls made

vars == <<vals, result, again, epc, static, dynamic, mode, fileExists, num_ranks,
          register, pc, self_static, self_dynamic, prop, dumpMode, handle, todo,
          dynIdx, calls, analyzer, error, entry, timestep, ops, outcome,
          system, system_definition, icalls, icall, icount>>

expVars == <<vals, result, again, epc>>
argVars == <<static, dynamic, mode, fileExists, num_ranks, register>>
initVars == <<pc, self_static, self_dynamic, prop, dumpMode, handle, todo,
              dynIdx, calls, analyzer, error>>
useVars == <<entry, timestep, ops, outcome>>
sysVars == <<system, system_definition, icalls, icall, icount>>

(***************************************************************************)
(* Bounds of the model.                                                    *)
(***************************************************************************)
MaxLen == 2        \* longest request sequence given to _expandNames
MaxStatic == 2     \* longest static list given to __init__
MaxDynamic == 2    \* most keys of the dynamic dict given to __init__
MaxPeriod == 2     \* largest period value

(***************************************************************************)
(* Requests.  A request is a property name given as a string, or a         *)
(* DumpProp namedtuple.                                                    *)
(***************************************************************************)
Str(n) == [str |-> n]

IsStr(val) == "str" \in DOMAIN val

DumpProp(n, hp, c) == [name |-> n, highPrecision |-> hp, compression |-> c]

DefaultCompression == "FastCompress"

Compression == {"NoCompress", "FastCompress", "MediumCompress", "SlowCompress"}

dump_modes == ("w" :> "Overwrite") @@ ("a" :> "Append") @@ ("1" :> "OneShot")

\* a substitution table in which viz_static leads back to viz_all
substitutionsCyclic ==
    [all |-> <<"particle_all", "global_all">>,
     particle_all |-> <<"position", "type">>,
     global_all |-> <<"box", "dimensions">>,
     viz_dynamic |-> <<"position", "box">>,
     viz_static |-> <<"type", "viz_all">>,
     viz_all |-> <<"viz_static", "viz_dynamic">>]

substitutions ==
    [all |-> <<"particle_all", "angle_all", "bond_all",
               "dihedral_all", "improper_all", "global_all">>,
     particle_all |->
         <<"angular_momentum", "body", "charge", "diameter", "image", "mass",
           "moment_inertia", "orientation", "position", "type", "type_names",
           "velocity">>,
     angle_all |-> <<"angle_type_names", "angle_tag", "angle_type">>,
     bond_all |-> <<"bond_type_names", "bond_tag", "bond_type">>,
     dihedral_all |-> <<"dihedral_type_names", "dihedral_tag", "dihedral_type">>,
     improper_all |-> <<"improper_type_names", "improper_tag", "improper_type">>,
     global_all |-> <<"box", "dimensions">>,
     viz_dynamic |-> <<"position", "box">>,
     viz_static |-> <<"type", "type_names", "dimensions">>,
     viz_all |-> <<"viz_static", "viz_dynamic">>,
     viz_aniso_dynamic |-> <<"viz_dynamic", "orientation">>,
     viz_aniso_all |-> <<"viz_static", "viz_aniso_dynamic">>]

known_properties ==
    [angle_type_names |-> "AngleNames",
     angle_tag |-> "AngleTags",
     angle_type |-> "AngleTypes",
     angular_momentum |-> "AngularMomentum",
     body |-> "Body",
     bond_type_names |-> "BondNames",
     bond_tag |-> "BondTags",
     bond_type |-> "BondTypes",
     box |-> "Box",
     charge |-> "Charge",
     diameter |-> "Diameter",
     dihedral_type_names |-> "DihedralNames",
     dihedral_tag |-> "DihedralTags",
     dihedral_type |-> "DihedralTypes",
     dimensions |-> "Dimensions",
     image |-> "Image",
     improper_type_names |-> "ImproperNames",
     improper_tag |-> "ImproperTags",
     improper_type |-> "ImproperTypes",
     mass |-> "Mass",
     moment_inertia |-> "MomentInertia",
     orientation |-> "Orientation",
     position |-> "Position",
     potential_energy |-> "PotentialEnergy",
     type |-> "Type",
     type_names |-> "TypeNames",
     velocity |-> "Velocity",
     virial |-> "Virial"]

known_resolutions ==
    [angle_type_names |-> "Text",
     angle_tag |-> "Individual",
     angle_type |-> "Individual",
     angular_momentum |-> "Individual",
     body |-> "Individual",
     bond_type_names |-> "Text",
     bond_tag |-> "Individual",
     bond_type |-> "Individual",
     box |-> "Uniform",
     charge |-> "Individual",
     diameter |-> "Individual",
     dihedral_type_names |-> "Text",
     dihedral_tag |-> "Individual",
     dihedral_type |-> "Individual",
     dimensions |-> "Uniform",
     image |-> "Individual",
     improper_type_names |-> "Text",
     improper_tag |-> "Individual",
     improper_type |-> "Individual",
     mass |-> "Individual",
     moment_inertia |-> "Individual",
     orientation |-> "Individual",
     position |-> "Individual",
     potential_energy |-> "Individual",
     type |-> "Individual",
     type_names |-> "Text",
     velocity |-> "Individual",
     virial |-> "Individual"]

\* a list of rank-unsafe properties that names a primitive of the composites
bad_mpi_propertiesWithPosition == <<"potential_energy", "virial", "position">>

bad_mpi_properties == <<"potential_energy", "virial">>

Range(s) == {s[i] : i \in DOMAIN s}

\* a _getStatic that always returns the default precision and compression
getStaticDefaults(val) ==
    DumpProp(IF IsStr(val) THEN val.str ELSE val.name, FALSE, DefaultCompression)

(***************************************************************************)
(* _getStatic: a string becomes a DumpProp with the default precision and  *)
(* compression; anything else is returned as it is.                        *)
(***************************************************************************)
_getStatic(val) ==
    IF IsStr(val) THEN DumpProp(val.str, FALSE, DefaultCompression) ELSE val

\* an expansion that substitutes once and does not expand the substitutes
RECURSIVE expandOneLevel(_)
expandOneLevel(vs) ==
    IF vs = <<>> THEN <<>>
    ELSE LET val == _getStatic(Head(vs))
             here == IF val.name \in DOMAIN substitutions
                     THEN LET names == substitutions[val.name]
                          IN [i \in 1..Len(names) |->
                                DumpProp(names[i], val.highPrecision,
                                         val.compression)]
                     ELSE <<val>>
         IN here \o expandOneLevel(Tail(vs))

\* an expansion whose loop over the substitutes stops one short
RECURSIVE expandSkipLast(_)
expandSkipLast(vs) ==
    IF vs = <<>> THEN <<>>
    ELSE LET val == _getStatic(Head(vs))
             here == IF val.name \in DOMAIN substitutions
                     THEN LET names == substitutions[val.name]
                              subs == [i \in 1..(Len(names) - 1) |->
                                         DumpProp(names[i], val.highPrecision,
                                                  val.compression)]
                          IN expandSkipLast(subs)
                     ELSE <<val>>
         IN here \o expandSkipLast(Tail(vs))

(***************************************************************************)
(* _expandNames: the recursive expansion of composite names.               *)
(***************************************************************************)
RECURSIVE _expandNames(_)
_expandNames(vs) ==
    IF vs = <<>> THEN <<>>
    ELSE LET val == _getStatic(Head(vs))
             here == IF val.name \in DOMAIN substitutions
                     THEN LET names == substitutions[val.name]
                              subs == [i \in 1..Len(names) |->
                                         DumpProp(names[i], val.highPrecision,
                                                  val.compression)]
                          IN _expandNames(subs)
                     ELSE <<val>>
         IN here \o _expandNames(Tail(vs))

(***************************************************************************)
(* Expansion runs: _expandNames applied to a request sequence, and then to *)
(* its own result.                                                         *)
(***************************************************************************)
CompositeNames == DOMAIN substitutions

CatalogNames == DOMAIN known_properties

\* a name that is neither composite nor in the catalog (dump.py:258 uses it)
UnknownNames == {"types"}

SeqsUpTo(S, n) == UNION {[1..k -> S] : k \in 0..n}

ExpandInputNames ==
    CompositeNames \cup {"position", "potential_energy"} \cup UnknownNames

ExpandInputFlags ==
    {<<TRUE, "FastCompress">>, <<FALSE, "NoCompress">>, <<TRUE, "SlowCompress">>}

ExpandInputs ==
    {Str(n) : n \in ExpandInputNames}
        \cup {DumpProp(n, f[1], f[2]) : n \in ExpandInputNames, f \in ExpandInputFlags}

\* no call was made on the dumper
NoCall == [fn |-> "none"]

\* no system initialized, no init call made
NoSystem ==
    /\ system = [set |-> FALSE]
    /\ system_definition = [set |-> FALSE]
    /\ icalls = <<>>
    /\ icall = NoCall
    /\ icount = 0

\* the plain constructor is the entry point, and nothing was called on the dumper
PlainEntry ==
    /\ entry = [fn |-> "getar"]
    /\ timestep = 0
    /\ ops = 0
    /\ outcome = NoCall

Idle ==
    /\ NoSystem
    /\ PlainEntry
    /\ static = <<>>
    /\ dynamic = <<>>
    /\ mode = "w"
    /\ fileExists = FALSE
    /\ num_ranks = 1
    /\ register = FALSE
    /\ pc = "idle"
    /\ self_static = <<>>
    /\ self_dynamic = <<>>
    /\ prop = [unbound |-> TRUE]
    /\ dumpMode = "none"
    /\ handle = "unopened"
    /\ todo = {}
    /\ dynIdx = 0
    /\ calls = <<>>
    /\ analyzer = "none"
    /\ error = [type |-> "none"]

InitExpand ==
    /\ vals \in SeqsUpTo(ExpandInputs, MaxLen)
    /\ result = <<>>
    /\ again = <<>>
    /\ epc = "start"
    /\ Idle

Expand ==
    /\ epc = "start"
    /\ result' = _expandNames(vals)
    /\ epc' = "expanded"
    /\ UNCHANGED <<vals, again, argVars, initVars, useVars, sysVars>>

ExpandAgain ==
    /\ epc = "expanded"
    /\ again' = _expandNames(result)
    /\ epc' = "done"
    /\ UNCHANGED <<vals, result, argVars, initVars, useVars, sysVars>>

NextExpand == Expand \/ ExpandAgain

SpecExpand == InitExpand /\ [][NextExpand]_vars

Expanded == epc \in {"expanded", "done"}

\* a request as the triple it stands for: a string stands for the name with
\* the default precision and compression of DumpProp
RequestOf(val) ==
    IF IsStr(val) THEN DumpProp(val.str, FALSE, "FastCompress") ELSE val

Names(props) == [i \in DOMAIN props |-> props[i].name]

\* C1: expansion is idempotent: expanding the result of an expansion gives
\* the same sequence again.
ExpansionIdempotent == epc = "done" => again = result

ExpansionIdempotentWitness ==
    /\ epc = "done"
    /\ vals = <<Str("all"), DumpProp("viz_aniso_all", TRUE, "SlowCompress")>>
    /\ Len(result) = 32

AllGroups ==
    <<"particle_all", "angle_all", "bond_all", "dihedral_all", "improper_all",
      "global_all">>

\* C2: the expansion of 'all' is exactly the union of the expansions of the
\* six groups, and no primitive name occurs in it twice.
AllIsUnionOfGroups ==
    (Expanded /\ Len(vals) = 1 /\ RequestOf(vals[1]).name = "all") =>
        LET r == RequestOf(vals[1])
        IN /\ Range(result) =
                UNION {Range(_expandNames(<<DumpProp(AllGroups[i], r.highPrecision,
                                                     r.compression)>>)) :
                          i \in DOMAIN AllGroups}
           /\ \A i, j \in DOMAIN result : i # j => result[i].name # result[j].name

AllIsUnionOfGroupsWitness ==
    /\ epc = "expanded"
    /\ vals = <<DumpProp("all", TRUE, "FastCompress")>>
    /\ Len(result) = 26

\* the table of composite properties of the class documentation
CompositeTable ==
    [global_all |-> <<"box", "dimensions">>,
     angle_all |-> <<"angle_type_names", "angle_tag", "angle_type">>,
     bond_all |-> <<"bond_type_names", "bond_tag", "bond_type">>,
     dihedral_all |-> <<"dihedral_type_names", "dihedral_tag", "dihedral_type">>,
     improper_all |-> <<"improper_type_names", "improper_tag", "improper_type">>,
     particle_all |->
         <<"angular_momentum", "body", "charge", "diameter", "image", "mass",
           "moment_inertia", "orientation", "position", "type", "type_names",
           "velocity">>,
     all |-> <<"particle_all", "angle_all", "bond_all", "dihedral_all",
               "improper_all", "global_all">>,
     viz_static |-> <<"type", "type_names", "dimensions">>,
     viz_dynamic |-> <<"position", "box">>,
     viz_all |-> <<"viz_static", "viz_dynamic">>,
     viz_aniso_dynamic |-> <<"viz_dynamic", "orientation">>,
     viz_aniso_all |-> <<"viz_static", "viz_aniso_dynamic">>]

RECURSIVE Concat(_)
Concat(ss) == IF ss = <<>> THEN <<>> ELSE Head(ss) \o Concat(Tail(ss))

\* every composite request of a sequence replaced, in place, by its children
\* in table order, each with the parent's precision and compression
Rewrite(props) ==
    Concat([i \in DOMAIN props |->
              IF props[i].name \in DOMAIN CompositeTable
              THEN LET names == CompositeTable[props[i].name]
                   IN [k \in DOMAIN names |->
                         DumpProp(names[k], props[i].highPrecision,
                                  props[i].compression)]
              ELSE <<props[i]>>])

\* rewriting until no composite name is left
RECURSIVE Flattening(_, _)
Flattening(props, fuel) ==
    IF fuel = 0 \/ \A i \in DOMAIN props : props[i].name \notin DOMAIN CompositeTable
    THEN props
    ELSE Flattening(Rewrite(props), fuel - 1)

\* C3: _expandNames returns the pre-order flattening of the documented table:
\* composites replaced in table order by their primitive descendants, which
\* carry the parent's precision and compression; other requests kept in place.
ExpansionIsFlattening ==
    Expanded =>
        /\ result = Flattening([i \in DOMAIN vals |-> RequestOf(vals[i])],
                               Cardinality(DOMAIN CompositeTable))
        /\ \A i \in DOMAIN result : result[i].name \notin DOMAIN CompositeTable
        /\ (Len(vals) = 1 /\ RequestOf(vals[1]).name = "viz_aniso_all") =>
               Names(result) = <<"type", "type_names", "dimensions", "position",
                                 "box", "orientation">>
        /\ (Len(vals) = 1 /\ RequestOf(vals[1]).name \notin DOMAIN CompositeTable) =>
               result = <<RequestOf(vals[1])>>

ExpansionIsFlatteningWitness ==
    /\ epc = "expanded"
    /\ vals = <<DumpProp("viz_aniso_all", TRUE, "SlowCompress"), Str("types")>>
    /\ Len(result) = 7
    /\ result[6] = DumpProp("orientation", TRUE, "SlowCompress")
    /\ result[7] = DumpProp("types", FALSE, "FastCompress")

(***************************************************************************)
(* Construction of a getar dumper: getar.__init__.                         *)
(*                                                                         *)
(* A period is a single integer or a sequence of integers.  A dict is a    *)
(* sequence of entries with distinct keys, in insertion order.             *)
(***************************************************************************)
IntPeriod(n) == [int |-> n]

SeqPeriod(s) == [seq |-> s]

IsIterable(period) == "seq" \in DOMAIN period

Entry(k, p) == [key |-> k, period |-> p]

Keys(d) == {d[i].key : i \in DOMAIN d}

Unbound == [unbound |-> TRUE]

IsUnbound(v) == "unbound" \in DOMAIN v

NoError == [type |-> "none"]

\* a dict whose keys compare by property name alone
DictSetByName(d, k, v) ==
    IF \E i \in DOMAIN d : d[i].key.name = k.name
    THEN [i \in DOMAIN d |-> IF d[i].key.name = k.name THEN Entry(d[i].key, v) ELSE d[i]]
    ELSE Append(d, Entry(k, v))

\* d[k] = v on a dict: an existing key keeps its place and gets the new value
DictSet(d, k, v) ==
    IF k \in Keys(d)
    THEN [i \in DOMAIN d |-> IF d[i].key = k THEN Entry(k, v) ELSE d[i]]
    ELSE Append(d, Entry(k, v))

\* for prop in props: acc[prop] = period
RECURSIVE AssignAll(_, _, _)
AssignAll(acc, props, period) ==
    IF props = <<>> THEN acc
    ELSE AssignAll(DictSet(acc, Head(props), period), Tail(props), period)

\* the loop that builds self._dynamic from the dynamic argument
RECURSIVE BuildDynamic(_, _)
BuildDynamic(acc, dyn) ==
    IF dyn = <<>> THEN acc
    ELSE BuildDynamic(
             AssignAll(acc, _expandNames(<<Head(dyn).key>>), Head(dyn).period),
             Tail(dyn))

\* the value the loop variable prop is left with by the loop over dynamic
LastProp(dyn) ==
    LET props == _expandNames([i \in DOMAIN dyn |-> dyn[i].key])
    IN IF props = <<>> THEN Unbound ELSE props[Len(props)]

\* cpp_analyzer.setPeriod(property, resolution, behavior, highPrecision,
\*                        compression, period)
SetPeriodCall(p, behavior, period) ==
    [op |-> "setPeriod",
     property |-> known_properties[p.name],
     resolution |-> known_resolutions[p.name],
     behavior |-> behavior,
     highPrecision |-> p.highPrecision,
     compression |-> p.compression,
     period |-> period]

\* the setPeriod calls of one dynamic property: one per element of an
\* iterable period, one for a single value
DynamicCalls(p, period) ==
    IF IsIterable(period)
    THEN [i \in DOMAIN period.seq |-> SetPeriodCall(p, "Discrete", period.seq[i])]
    ELSE <<SetPeriodCall(p, "Discrete", period.int)>>

RankUnsafe(p) == num_ranks > 1 /\ p.name \in Range(bad_mpi_properties)

Raise(e) ==
    /\ pc' = "failed"
    /\ error' = e

\* lines 265-275
Resolve ==
    /\ pc = "start"
    /\ self_static' = _expandNames(static)
    /\ self_dynamic' = BuildDynamic(<<>>, dynamic)
    /\ prop' = LastProp(dynamic)
    /\ analyzer' = IF register THEN "initialized" ELSE analyzer
    /\ pc' = "validate_static"
    /\ UNCHANGED <<expVars, useVars, sysVars, argVars, dumpMode, handle, todo, dynIdx, calls, error>>

\* lines 277-279: every iteration tests the same prop.name
ValidateStatic ==
    /\ pc = "validate_static"
    /\ IF self_static = <<>>
       THEN pc' = "validate_dynamic" /\ UNCHANGED error
       ELSE IF IsUnbound(prop)
       THEN Raise([type |-> "UnboundLocalError", name |-> "prop"])
       ELSE IF prop.name \notin DOMAIN known_properties
       THEN Raise([type |-> "UnknownStatic", val |-> self_static[1]])
       ELSE pc' = "validate_dynamic" /\ UNCHANGED error
    /\ UNCHANGED <<expVars, useVars, sysVars, argVars, self_static, self_dynamic, prop, dumpMode,
                   handle, todo, dynIdx, calls, analyzer>>

\* lines 281-283
ValidateDynamic ==
    /\ pc = "validate_dynamic"
    /\ LET bad == {i \in DOMAIN self_dynamic :
                      self_dynamic[i].key.name \notin DOMAIN known_properties}
       IN IF bad # {}
          THEN LET first == CHOOSE i \in bad : \A j \in bad : i <= j
               IN Raise([type |-> "UnknownDynamic", val |-> self_dynamic[first].key])
          ELSE pc' = "mode" /\ UNCHANGED error
    /\ UNCHANGED <<expVars, useVars, sysVars, argVars, self_static, self_dynamic, prop, dumpMode,
                   handle, todo, dynIdx, calls, analyzer>>

\* a mode resolution without the fallback from Append to Overwrite
ResolveModeNoFallback ==
    /\ pc = "mode"
    /\ IF mode \notin DOMAIN dump_modes
       THEN Raise([type |-> "UnknownMode", mode |-> mode]) /\ UNCHANGED dumpMode
       ELSE /\ dumpMode' = dump_modes[mode]
            /\ pc' = "open"
            /\ UNCHANGED error
    /\ UNCHANGED <<expVars, useVars, sysVars, argVars, self_static, self_dynamic, prop, handle,
                   todo, dynIdx, calls, analyzer>>

\* lines 285-291
ResolveMode ==
    /\ pc = "mode"
    /\ IF mode \notin DOMAIN dump_modes
       THEN Raise([type |-> "UnknownMode", mode |-> mode]) /\ UNCHANGED dumpMode
       ELSE /\ dumpMode' = IF dump_modes[mode] = dump_modes["a"] /\ ~fileExists
                           THEN dump_modes["w"]
                           ELSE dump_modes[mode]
            /\ pc' = "open"
            /\ UNCHANGED error
    /\ UNCHANGED <<expVars, useVars, sysVars, argVars, self_static, self_dynamic, prop, handle,
                   todo, dynIdx, calls, analyzer>>

\* lines 293-295, and the set built at line 297
Open ==
    /\ pc = "open"
    /\ handle' = "open"
    /\ calls' = Append(calls, [op |-> "GetarDumpWriter", mode |-> dumpMode])
    /\ todo' = Range(self_static)
    /\ pc' = "static"
    /\ UNCHANGED <<expVars, useVars, sysVars, argVars, self_static, self_dynamic, prop, dumpMode,
                   dynIdx, analyzer, error>>

\* lines 297-306: one iteration; a set is iterated in no particular order
RegisterStatic ==
    /\ pc = "static"
    /\ \E val \in todo :
          LET p == _getStatic(val)
          IN /\ prop' = p
             /\ todo' = todo \ {val}
             /\ IF RankUnsafe(p)
                THEN Raise([type |-> "RankUnsafe", name |-> p.name])
                     /\ UNCHANGED calls
                ELSE IF p.name \notin DOMAIN known_properties
                THEN Raise([type |-> "KeyError", name |-> p.name])
                     /\ UNCHANGED calls
                ELSE /\ calls' = Append(calls, SetPeriodCall(p, "Constant", 0))
                     /\ UNCHANGED <<pc, error>>
    /\ UNCHANGED <<expVars, useVars, sysVars, argVars, self_static, self_dynamic, dumpMode, handle,
                   dynIdx, analyzer>>

\* the end of the loop over the static properties
StaticDone ==
    /\ pc = "static"
    /\ todo = {}
    /\ dynIdx' = 1
    /\ pc' = "dynamic"
    /\ UNCHANGED <<expVars, useVars, sysVars, argVars, self_static, self_dynamic, prop, dumpMode,
                   handle, todo, calls, analyzer, error>>

\* lines 308-329: one iteration
RegisterDynamic ==
    /\ pc = "dynamic"
    /\ dynIdx <= Len(self_dynamic)
    /\ LET p == self_dynamic[dynIdx].key
           period == self_dynamic[dynIdx].period
       IN /\ prop' = p
          /\ IF RankUnsafe(p)
             THEN Raise([type |-> "RankUnsafe", name |-> p.name])
                  /\ UNCHANGED calls
             ELSE IF p.name \notin DOMAIN known_properties
             THEN Raise([type |-> "KeyError", name |-> p.name])
                  /\ UNCHANGED calls
             ELSE /\ calls' = calls \o DynamicCalls(p, period)
                  /\ UNCHANGED <<pc, error>>
    /\ dynIdx' = dynIdx + 1
    /\ UNCHANGED <<expVars, useVars, sysVars, argVars, self_static, self_dynamic, dumpMode, handle,
                   todo, analyzer>>

\* an end of construction that attaches the dumper whatever _register is
FinishAlwaysAttach ==
    /\ pc = "dynamic"
    /\ dynIdx > Len(self_dynamic)
    /\ analyzer' = "attached"
    /\ pc' = "done"
    /\ UNCHANGED <<expVars, useVars, sysVars, argVars, self_static, self_dynamic, prop, dumpMode,
                   handle, todo, dynIdx, calls, error>>

\* lines 331-332
Finish ==
    /\ pc = "dynamic"
    /\ dynIdx > Len(self_dynamic)
    /\ analyzer' = IF register THEN "attached" ELSE analyzer
    /\ pc' = "done"
    /\ UNCHANGED <<expVars, useVars, sysVars, argVars, self_static, self_dynamic, prop, dumpMode,
                   handle, todo, dynIdx, calls, error>>

(***************************************************************************)
(* The arguments a dumper is constructed with.                             *)
(***************************************************************************)
PeriodPairs == {pq \in (1..MaxPeriod) \X (1..MaxPeriod) : pq[1] < pq[2]}

Periods ==
    {IntPeriod(n) : n \in 0..MaxPeriod}
        \cup {SeqPeriod(<<pq[1], pq[2]>>) : pq \in PeriodPairs}
        \cup {SeqPeriod(<<pq[1], pq[1], pq[2]>>) : pq \in PeriodPairs}

DynMaps(K, P, n) ==
    {d \in SeqsUpTo({Entry(k, p) : k \in K, p \in P}, n) :
        \A i, j \in DOMAIN d : i # j => d[i].key # d[j].key}

StaticRequests ==
    {Str("viz_static"), Str("potential_energy"), Str("types"),
     DumpProp("type", TRUE, "FastCompress")}

DynamicRequests ==
    {Str("viz_dynamic"), Str("position"), Str("virial"),
     DumpProp("position", TRUE, "NoCompress")}

\* static and dynamic names of every kind, at one rank and at several
ArgsNames ==
    /\ static \in SeqsUpTo(StaticRequests, MaxStatic)
    /\ dynamic \in DynMaps({Str("viz_dynamic"), Str("virial"), Str("types")},
                           {IntPeriod(1)}, MaxDynamic)
    /\ num_ranks \in {1, 2}
    /\ mode = "w"
    /\ fileExists = FALSE
    /\ register = TRUE

\* dynamic properties with periods of every kind
ArgsPeriods ==
    /\ static = <<>>
    /\ dynamic \in DynMaps(DynamicRequests, Periods, MaxDynamic)
    /\ num_ranks \in {1, 2}
    /\ mode = "w"
    /\ fileExists = FALSE
    /\ register = TRUE

\* the same primitive name requested with different precision and compression
ArgsPrecision ==
    /\ static \in SeqsUpTo({Str("type"), DumpProp("type", TRUE, "FastCompress"),
                             DumpProp("type", FALSE, "NoCompress")}, MaxStatic)
    /\ dynamic \in DynMaps({Str("position"),
                             DumpProp("position", TRUE, "FastCompress"),
                             DumpProp("position", FALSE, "NoCompress")},
                            {IntPeriod(1), IntPeriod(2)}, MaxDynamic)
    /\ num_ranks = 1
    /\ mode = "w"
    /\ fileExists = FALSE
    /\ register = TRUE

\* every mode token, with and without a file at the path
ArgsModes ==
    /\ static \in SeqsUpTo({Str("viz_static")}, 1)
    /\ dynamic \in DynMaps({Str("position")}, {IntPeriod(1)}, 1)
    /\ num_ranks \in {1, 2}
    /\ mode \in {"w", "a", "1", "x"}
    /\ fileExists \in BOOLEAN
    /\ register \in BOOLEAN

Init ==
    /\ vals = <<>>
    /\ result = <<>>
    /\ again = <<>>
    /\ epc = "idle"
    /\ ArgsNames \/ ArgsPeriods \/ ArgsPrecision \/ ArgsModes
    /\ NoSystem
    /\ PlainEntry
    /\ pc = "start"
    /\ self_static = <<>>
    /\ self_dynamic = <<>>
    /\ prop = Unbound
    /\ dumpMode = "none"
    /\ handle = "unopened"
    /\ todo = {}
    /\ dynIdx = 0
    /\ calls = <<>>
    /\ analyzer = "none"
    /\ error = NoError

Next ==
    \/ Resolve
    \/ ValidateStatic
    \/ ValidateDynamic
    \/ ResolveMode
    \/ Open
    \/ RegisterStatic
    \/ StaticDone
    \/ RegisterDynamic
    \/ Finish

Spec == Init /\ [][Next]_vars

(***************************************************************************)
(* Use of a dumper: getar.simple, getar.immediate, writeJSON and close.    *)
(***************************************************************************)
MaxOps == 2        \* most calls made on a constructed dumper
MaxStep == 1       \* largest timestep of the simulation

\* the dict comprehension of simple without the high_precision flag
simpleDictDefaultPrecision(names, period, high_precision) ==
    AssignAll(<<>>, [i \in DOMAIN names |-> DumpProp(names[i], FALSE, DefaultCompression)],
              period)

\* line 384: {cls.DumpProp(name, highPrecision=high_precision): period
\*            for name in dynamic}
simpleDict(names, period, high_precision) ==
    AssignAll(<<>>,
              [i \in DOMAIN names |-> DumpProp(names[i], high_precision, DefaultCompression)],
              period)

\* lines 384-385: simple calls the constructor
Simple ==
    /\ pc = "simple"
    /\ static' = entry.static
    /\ dynamic' = simpleDict(entry.dynamic, entry.period, entry.high_precision)
    /\ mode' = entry.mode
    /\ pc' = "start"
    /\ UNCHANGED <<expVars, useVars, sysVars, fileExists, num_ranks, register,
                   self_static, self_dynamic, prop, dumpMode, handle, todo,
                   dynIdx, calls, analyzer, error>>

\* an immediate dump that opens the archive in append mode
ImmediateAppend ==
    /\ pc = "immediate"
    /\ static' = entry.static
    /\ dynamic' = AssignAll(<<>>, entry.dynamic, IntPeriod(1))
    /\ mode' = "a"
    /\ register' = FALSE
    /\ pc' = "start"
    /\ UNCHANGED <<expVars, useVars, sysVars, fileExists, num_ranks,
                   self_static, self_dynamic, prop, dumpMode, handle, todo,
                   dynIdx, calls, analyzer, error>>

\* line 398: immediate calls the constructor with mode 'w', period 1 for
\* every key and _register=False
Immediate ==
    /\ pc = "immediate"
    /\ static' = entry.static
    /\ dynamic' = AssignAll(<<>>, entry.dynamic, IntPeriod(1))
    /\ mode' = "w"
    /\ register' = FALSE
    /\ pc' = "start"
    /\ UNCHANGED <<expVars, useVars, sysVars, fileExists, num_ranks,
                   self_static, self_dynamic, prop, dumpMode, handle, todo,
                   dynIdx, calls, analyzer, error>>

\* line 399: the forced write cycle; the writer may fail to write
ImmediateAnalyze ==
    /\ pc = "done"
    /\ entry.fn = "immediate"
    /\ calls' = Append(calls, [op |-> "analyze", timestep |-> timestep])
    /\ \E written \in BOOLEAN :
          IF written THEN pc' = "analyzed" /\ UNCHANGED error
          ELSE Raise([type |-> "IOError"])
    /\ UNCHANGED <<expVars, useVars, sysVars, argVars, self_static, self_dynamic,
                   prop, dumpMode, handle, todo, dynIdx, analyzer>>

\* lines 400-401: dumper.close(), then the reference to the writer is dropped
ImmediateClose ==
    /\ pc = "analyzed"
    /\ calls' = Append(calls, [op |-> "close"])
    /\ handle' = "closed"
    /\ pc' = "returned"
    /\ UNCHANGED <<expVars, useVars, sysVars, argVars, self_static, self_dynamic,
                   prop, dumpMode, todo, dynIdx, analyzer, error>>

\* names given to writeJSON: none of them is a name of known_properties
RecordNames == {"params.json"}

\* values given to writeJSON as contents, by kind
Payloads == {"number", "NaN", "cyclic", "object"}

\* line 356: json.dumps(contents) with its default arguments: a cyclic
\* structure raises ValueError, a value of an unsupported type TypeError, and
\* NaN (like the infinities) is encoded as a token of its own
JsonDumps(contents) ==
    CASE contents = "number" -> [raises |-> "none", text |-> "1.5"]
      [] contents = "NaN" -> [raises |-> "none", text |-> "NaN"]
      [] contents = "cyclic" -> [raises |-> "ValueError", text |-> ""]
      [] contents = "object" -> [raises |-> "TypeError", text |-> ""]

\* lines 351-354, always taking the current timestep
TimestepOfCurrent(dyn) == timestep

\* lines 351-354
TimestepOf(dyn) == IF dyn THEN timestep ELSE -1

\* the result of a call on the writer: a writer that was closed before is
\* outside this code, and may accept the call or raise
WriterResult == IF handle = "closed" THEN {"ok", "RuntimeError"} ELSE {"ok"}

\* line 334: a call of writeJSON and the way it ended
WriteJSONCall(name, contents, dyn, r) ==
    [fn |-> "writeJSON", name |-> name, contents |-> contents, dynamic |-> dyn,
     result |-> r]

\* lines 334-356
WriteJSON ==
    /\ pc = "done"
    /\ entry.fn # "immediate"
    /\ ops < MaxOps
    /\ ops' = ops + 1
    /\ \E name \in RecordNames, contents \in Payloads, dyn \in BOOLEAN :
          LET encoded == JsonDumps(contents)
          IN IF encoded.raises # "none"
             THEN /\ outcome' = WriteJSONCall(name, contents, dyn, encoded.raises)
                  /\ UNCHANGED calls
             ELSE /\ calls' = Append(calls, [op |-> "writeStr", name |-> name,
                                             text |-> encoded.text,
                                             timestep |-> TimestepOf(dyn)])
                  /\ \E r \in WriterResult :
                        outcome' = WriteJSONCall(name, contents, dyn, r)
    /\ UNCHANGED <<expVars, entry, timestep, sysVars, argVars, pc, self_static,
                   self_dynamic, prop, dumpMode, handle, todo, dynIdx, analyzer,
                   error>>

\* lines 404-406
Close ==
    /\ pc = "done"
    /\ entry.fn # "immediate"
    /\ ops < MaxOps
    /\ ops' = ops + 1
    /\ calls' = Append(calls, [op |-> "close"])
    /\ \E r \in WriterResult : outcome' = [fn |-> "close", result |-> r]
    /\ handle' = "closed"
    /\ UNCHANGED <<expVars, entry, timestep, sysVars, argVars, pc, self_static,
                   self_dynamic, prop, dumpMode, todo, dynIdx, analyzer, error>>

\* line 352: the step loop of the simulation advances the current timestep
\* between the calls made on a dumper
Advance ==
    /\ pc = "done"
    /\ entry.fn # "immediate"
    /\ timestep < MaxStep
    /\ timestep' = timestep + 1
    /\ UNCHANGED <<expVars, entry, ops, outcome, sysVars, argVars, initVars>>

\* the constructor arguments before an entry point has called the constructor
NoArgs ==
    /\ static = <<>>
    /\ dynamic = <<>>
    /\ mode = "w"

\* a dumper made by the constructor, to be written to and closed
UsePlain ==
    /\ entry = [fn |-> "getar"]
    /\ static = <<>>
    /\ dynamic = <<Entry(Str("position"), IntPeriod(1))>>
    /\ mode = "w"
    /\ fileExists = FALSE
    /\ num_ranks = 1
    /\ register = TRUE
    /\ timestep \in 0..MaxStep
    /\ pc = "start"

\* getar.simple(filename, period, mode, static, dynamic, high_precision)
UseSimple ==
    /\ \E st \in SeqsUpTo({Str("type"), DumpProp("type", TRUE, "NoCompress")}, 1),
          dy \in SeqsUpTo({"position", "viz_dynamic"}, MaxDynamic),
          p \in 1..MaxPeriod, m \in {"w", "a"}, hp \in BOOLEAN :
          entry = [fn |-> "simple", static |-> st, dynamic |-> dy,
                   period |-> IntPeriod(p), mode |-> m, high_precision |-> hp]
    /\ NoArgs
    /\ fileExists = FALSE
    /\ num_ranks = 1
    /\ register = TRUE
    /\ timestep = 0
    /\ pc = "simple"

\* getar.immediate(filename, static, dynamic)
UseImmediate ==
    /\ \E st \in SeqsUpTo({Str("viz_static"), Str("type")}, 1),
          dy \in SeqsUpTo({Str("viz_dynamic"), Str("position"), Str("virial")},
                          MaxDynamic) :
          entry = [fn |-> "immediate", static |-> st, dynamic |-> dy]
    /\ NoArgs
    /\ fileExists \in BOOLEAN
    /\ num_ranks \in {1, 2}
    /\ register = TRUE
    /\ timestep \in 0..MaxStep
    /\ pc = "immediate"

InitUse ==
    /\ vals = <<>>
    /\ result = <<>>
    /\ again = <<>>
    /\ epc = "idle"
    /\ NoSystem
    /\ UsePlain \/ UseSimple \/ UseImmediate
    /\ ops = 0
    /\ outcome = NoCall
    /\ self_static = <<>>
    /\ self_dynamic = <<>>
    /\ prop = Unbound
    /\ dumpMode = "none"
    /\ handle = "unopened"
    /\ todo = {}
    /\ dynIdx = 0
    /\ calls = <<>>
    /\ analyzer = "none"
    /\ error = NoError

NextUse ==
    \/ Simple
    \/ Immediate
    \/ Next
    \/ ImmediateAnalyze
    \/ ImmediateClose
    \/ WriteJSON
    \/ Close
    \/ Advance

SpecUse == InitUse /\ [][NextUse]_vars

(***************************************************************************)
(* Initialization of the system: init.py.  One action per init function.   *)
(* The engine behind the functions (readers, generators, SystemDefinition, *)
(* System, the common tasks) is outside this code: a call of an init       *)
(* function that reaches the engine ends well or fails at one of its       *)
(* engine calls.                                                           *)
(***************************************************************************)
MaxCalls == 2      \* most calls of init functions
MaxBondLen == 3    \* largest bond_len of a polymer
MaxRadius == 1     \* largest separation radius

None == "None"

\* an optional integer argument
NotGiven == [given |-> FALSE]

Given(n) == [given |-> TRUE, value |-> n]

\* init.py lines 75-79
is_initialized == system.set

\* the engine call at which an init call fails: none, one before the system
\* definition is assigned, the System constructor, the common tasks
EngineOutcomes == {"ok", "before", "System", "common"}

\* the timestep stored in a file
FileStep(f) == IF f \in {"restart.xml", "restart.gsd"} THEN 7 ELSE 0

\* an init call that raises before it assigns anything
Fail(call, made, err) ==
    /\ icall' = [call EXCEPT !.result = err]
    /\ icalls' = made
    /\ UNCHANGED <<system, system_definition>>

\* the tail shared by the init functions: system_definition is assigned, then
\* system, then _perform_common_init_tasks runs (lines 680-701)
InitializeFrom(call, made, source, ts) ==
    \E e \in EngineOutcomes :
        IF e = "before" THEN Fail(call, made, "EngineError")
        ELSE /\ system_definition' = [set |-> TRUE, source |-> source]
             /\ IF e = "System"
                THEN /\ UNCHANGED system
                     /\ icalls' = Append(made, [op |-> "SystemDefinition"])
                ELSE /\ system' = [set |-> TRUE, source |-> source, time_step |-> ts]
                     /\ icalls' = made \o <<[op |-> "SystemDefinition"],
                                            [op |-> "System", time_step |-> ts]>>
             /\ icall' = [call EXCEPT !.result = IF e = "ok" THEN "ok"
                                                ELSE "EngineError"]

\* one more call of an init function; the dumpers are left alone
InitCall ==
    /\ icount < MaxCalls
    /\ icount' = icount + 1
    /\ UNCHANGED <<expVars, useVars, argVars, initVars>>

\* lines 123-181
create_empty ==
    /\ InitCall
    /\ \E box_ok \in BOOLEAN :
          LET call == [fn |-> "create_empty", box_ok |-> box_ok, result |-> "ok"]
          IN IF is_initialized THEN Fail(call, <<>>, "RuntimeError")
             ELSE IF ~box_ok THEN Fail(call, <<>>, "TypeError")
             ELSE InitializeFrom(call, <<>>, <<"create_empty">>, 0)

\* lines 231-235: the file read_xml reads
filename_to_read(filename, restart, restart_exists) ==
    IF restart # None /\ restart_exists THEN restart ELSE filename

\* lines 221-253
read_xml ==
    /\ InitCall
    /\ \E restart \in {None, "restart.xml"}, restart_exists \in BOOLEAN,
          time_step \in {NotGiven, Given(5)} :
          LET call == [fn |-> "read_xml", filename |-> "init.xml", restart |-> restart,
                       restart_exists |-> restart_exists, time_step |-> time_step,
                       result |-> "ok"]
              f == filename_to_read("init.xml", restart, restart_exists)
          IN IF is_initialized THEN Fail(call, <<>>, "RuntimeError")
             ELSE InitializeFrom(call, <<[op |-> "HOOMDInitializer", filename |-> f]>>,
                                 <<"read_xml", f>>,
                                 IF time_step.given THEN time_step.value ELSE FileStep(f))

\* lines 286-347
create_random ==
    /\ InitCall
    /\ \E dimensions \in {1, 2, 3}, phi_p \in BOOLEAN, box \in {None, "boxdim", "tuple"} :
          LET call == [fn |-> "create_random", dimensions |-> dimensions,
                       phi_p |-> phi_p, box |-> box, result |-> "ok"]
              made == <<[op |-> "RandomGenerator"], [op |-> "generate"]>>
          IN IF is_initialized THEN Fail(call, <<>>, "RuntimeError")
             ELSE IF dimensions \notin {2, 3} THEN Fail(call, <<>>, "ValueError")
             ELSE IF ~phi_p /\ box = None THEN Fail(call, <<>>, "RuntimeError")
             ELSE IF ~phi_p /\ box # "boxdim" THEN Fail(call, <<>>, "TypeError")
             ELSE InitializeFrom(call, made, <<"create_random">>, 0)

\* complete polymer specifications of one type
Homopolymers ==
    {[bond_len |-> b, type |-> <<"A">>, bond |-> "linear", missing |-> None] :
        b \in 1..MaxBondLen}

\* polymer specifications: the complete ones of one type, one of two types,
\* one without its count field, one with a bond argument that is neither
\* 'linear' nor a list
Polymers ==
    Homopolymers
        \cup {[bond_len |-> MaxBondLen, type |-> <<"A", "B">>, bond |-> "linear",
               missing |-> None],
              [bond_len |-> 1, type |-> <<"A">>, bond |-> "linear", missing |-> "count"],
              [bond_len |-> 1, type |-> <<"A">>, bond |-> "ring", missing |-> None]}

PolymerLists ==
    {<<>>} \cup {<<p>> : p \in Polymers}
        \cup {<<p, q>> : p \in Homopolymers, q \in Homopolymers}

\* separation dicts {type: radius}, in insertion order
Separations ==
    {<<>>} \cup {<<[type |-> "A", r |-> r]>> : r \in 1..MaxRadius}
        \cup {<<[type |-> "A", r |-> r], [type |-> "B", r |-> q]>> :
                  r \in 1..MaxRadius, q \in 1..MaxRadius}

\* lines 485-546: the loop over the polymers; acc holds the minimum bond
\* length so far (0 for None) and the generators added
RECURSIVE BuildPolymers(_, _)
BuildPolymers(polys, acc) ==
    IF polys = <<>> THEN acc
    ELSE LET poly == Head(polys)
             len == IF acc.min_bond_len = 0 THEN poly.bond_len
                    ELSE IF poly.bond_len < acc.min_bond_len THEN poly.bond_len
                    ELSE acc.min_bond_len
         IN IF poly.missing = "bond_len" THEN [acc EXCEPT !.error = "RuntimeError"]
            ELSE IF poly.missing # None \/ poly.bond # "linear"
            THEN [acc EXCEPT !.min_bond_len = len, !.error = "RuntimeError"]
            ELSE BuildPolymers(Tail(polys),
                     [acc EXCEPT !.min_bond_len = len,
                                 !.types_used = @ \cup Range(poly.type),
                                 !.made = Append(@, [op |-> "addGenerator",
                                                     bond_len |-> poly.bond_len])])

\* lines 555-560: the loop over separation.items()
RECURSIVE SetSeparation(_, _, _)
SetSeparation(sep, min_bond_len, acc) ==
    IF sep = <<>> THEN acc
    ELSE LET t == Head(sep).type
             r == Head(sep).r
             set == [acc EXCEPT !.made = Append(@, [op |-> "setSeparationRadius",
                                                    type |-> t, r |-> r])]
         IN IF 2 * r >= min_bond_len THEN [set EXCEPT !.error = "RuntimeError"]
            ELSE SetSeparation(Tail(sep), min_bond_len, set)

\* lines 452-578
create_random_polymers ==
    /\ InitCall
    /\ \E polymers \in PolymerLists, separation \in Separations, box_ok \in BOOLEAN :
          LET call == [fn |-> "create_random_polymers", polymers |-> polymers,
                       separation |-> separation, box_ok |-> box_ok, result |-> "ok"]
              start == [min_bond_len |-> 0, types_used |-> {}, error |-> "none",
                        made |-> <<[op |-> "RandomGenerator"]>>]
              built == BuildPolymers(polymers, start)
              placed == SetSeparation(separation, built.min_bond_len, built)
          IN IF is_initialized THEN Fail(call, <<>>, "RuntimeError")
             ELSE IF polymers = <<>> \/ separation = <<>>
             THEN Fail(call, <<>>, "RuntimeError")
             ELSE IF ~box_ok THEN Fail(call, <<>>, "TypeError")
             ELSE IF built.error # "none" THEN Fail(call, built.made, built.error)
             ELSE IF ~(built.types_used \subseteq
                           {separation[i].type : i \in DOMAIN separation})
             THEN Fail(call, built.made, "RuntimeError")
             ELSE IF placed.error # "none" THEN Fail(call, placed.made, placed.error)
             ELSE InitializeFrom(call, Append(placed.made, [op |-> "generate"]),
                                 <<"create_random_polymers">>, 0)

\* a read_snapshot that does not test is_initialized()
read_snapshotUnchecked ==
    /\ InitCall
    /\ InitializeFrom([fn |-> "read_snapshot", result |-> "ok"], <<>>,
                      <<"read_snapshot">>, 0)

\* lines 597-620
read_snapshot ==
    /\ InitCall
    /\ LET call == [fn |-> "read_snapshot", result |-> "ok"]
       IN IF is_initialized THEN Fail(call, <<>>, "RuntimeError")
          ELSE InitializeFrom(call, <<>>, <<"read_snapshot">>, 0)

\* lines 643-672
read_gsd ==
    /\ InitCall
    /\ \E restart \in {None, "restart.gsd"}, restart_exists \in BOOLEAN,
          time_step \in {NotGiven, Given(5)} :
          LET call == [fn |-> "read_gsd", filename |-> "init.gsd", restart |-> restart,
                       restart_exists |-> restart_exists, time_step |-> time_step,
                       result |-> "ok"]
              f == "init.gsd"
          IN IF is_initialized THEN Fail(call, <<>>, "RuntimeError")
             ELSE InitializeFrom(call,
                                 <<[op |-> "GSDReader", filename |-> f, frame |-> 0]>>,
                                 <<"read_gsd", f>>,
                                 IF time_step.given THEN time_step.value ELSE FileStep(f))

InitSys ==
    /\ vals = <<>>
    /\ result = <<>>
    /\ again = <<>>
    /\ epc = "idle"
    /\ Idle

NextInit ==
    \/ create_empty
    \/ read_xml
    \/ create_random
    \/ create_random_polymers
    \/ read_snapshot
    \/ read_gsd

SpecInit == InitSys /\ [][NextInit]_vars

(***************************************************************************)
(* Properties of the construction.                                         *)
(***************************************************************************)
Terminal == pc \in {"done", "failed"}

\* the properties the arguments resolve to
ResolvedStatic == Range(_expandNames(static))

ResolvedOf(i) == Range(_expandNames(<<dynamic[i].key>>))

ResolvedDynamic == UNION {ResolvedOf(i) : i \in DOMAIN dynamic}

Known(p) == p.name \in DOMAIN known_properties

Unsafe(p) == p.name = "potential_energy" \/ p.name = "virial"

AllKnown == \A p \in ResolvedStatic \cup ResolvedDynamic : Known(p)

\* the values a period argument stands for
PeriodValues(period) ==
    IF IsIterable(period) THEN Range(period.seq) ELSE {period.int}

\* the positions in the call log of the registrations of p with a behavior
Registrations(p, behavior) ==
    {k \in DOMAIN calls :
        /\ calls[k].op = "setPeriod"
        /\ calls[k].behavior = behavior
        /\ calls[k].property = known_properties[p.name]
        /\ calls[k].highPrecision = p.highPrecision
        /\ calls[k].compression = p.compression}

RegisteredPeriods(p, behavior) ==
    {calls[k].period : k \in Registrations(p, behavior)}

\* C4: whenever a resolved static or dynamic name is not in known_properties,
\* construction fails with the unknown-property error.
UnknownPropertyRejected ==
    (Terminal /\ ~AllKnown) =>
        (pc = "failed" /\ error.type \in {"UnknownStatic", "UnknownDynamic"})

\* C5: with catalog-valid static requests and any valid dynamic mapping (the
\* empty one included) construction succeeds and issues exactly one Constant
\* registration with period 0 per distinct resolved static triple.
StaticRegisteredOnce ==
    (/\ Terminal
     /\ AllKnown
     /\ mode \in DOMAIN dump_modes
     /\ ~(num_ranks > 1 /\ \E p \in ResolvedStatic \cup ResolvedDynamic : Unsafe(p)))
    => (/\ pc = "done"
        /\ \A p \in ResolvedStatic :
              /\ Cardinality(Registrations(p, "Constant")) = 1
              /\ RegisteredPeriods(p, "Constant") = {0}
        /\ Cardinality({k \in DOMAIN calls : /\ calls[k].op = "setPeriod"
                                             /\ calls[k].behavior = "Constant"})
              = Cardinality(ResolvedStatic))

\* the dynamic keys other than i that resolve to the triple p as well
Sharing(i, p) == {j \in DOMAIN dynamic : j # i /\ p \in ResolvedOf(j)}

\* C6: requests resolving to the same name with different precision or
\* compression stay distinct entries, and on construction each gets its own
\* registration (static: one Constant registration per triple; dynamic: the
\* Discrete registrations at the periods of its own key).
DistinctByTriple ==
    /\ pc \notin {"idle", "start"} =>
          /\ ResolvedStatic \subseteq Range(self_static)
          /\ ResolvedDynamic \subseteq Keys(self_dynamic)
    /\ pc = "done" =>
          /\ \A p \in ResolvedStatic :
                Cardinality(Registrations(p, "Constant")) = 1
          /\ \A i \in DOMAIN dynamic : \A p \in ResolvedOf(i) :
                Sharing(i, p) = {} =>
                    RegisteredPeriods(p, "Discrete") = PeriodValues(dynamic[i].period)

DistinctByTripleWitness ==
    /\ pc = "done"
    /\ DumpProp("type", FALSE, "FastCompress") \in ResolvedStatic
    /\ DumpProp("type", TRUE, "FastCompress") \in ResolvedStatic
    /\ dynamic = <<Entry(DumpProp("position", FALSE, "NoCompress"), IntPeriod(1)),
                   Entry(Str("position"), IntPeriod(2))>>
    /\ RegisteredPeriods(DumpProp("position", FALSE, "NoCompress"), "Discrete") = {1}
    /\ RegisteredPeriods(DumpProp("position", FALSE, "FastCompress"), "Discrete") = {2}

\* C7: a sequence of periods with repeats gives one Discrete registration per
\* distinct period value.
PeriodsAreASet ==
    pc = "done" =>
        \A i \in DOMAIN self_dynamic :
            Cardinality(Registrations(self_dynamic[i].key, "Discrete"))
                = Cardinality(PeriodValues(self_dynamic[i].period))

\* C8: when several dynamic keys resolve to the same triple, the property is
\* registered at the periods of every one of those keys.
PeriodsAccumulate ==
    pc = "done" =>
        \A i \in DOMAIN dynamic : \A p \in ResolvedOf(i) :
            PeriodValues(dynamic[i].period) \subseteq RegisteredPeriods(p, "Discrete")

\* C9: a dynamic period that is zero or negative makes construction fail with
\* an invalid-period error, and no Discrete registration has a period <= 0.
NonPositivePeriodRejected ==
    /\ \A k \in DOMAIN calls :
          (calls[k].op = "setPeriod" /\ calls[k].behavior = "Discrete") =>
              calls[k].period > 0
    /\ (Terminal /\ \E i \in DOMAIN dynamic :
                       \E n \in PeriodValues(dynamic[i].period) : n <= 0) =>
          pc = "failed"

\* C10: with otherwise valid arguments the rank-unsafe error is raised if and
\* only if there are several ranks and a resolved property is rank-unsafe; it
\* names such a property, and no rank-unsafe property is registered when
\* there are several ranks.
RankUnsafeExactly ==
    /\ (Terminal /\ AllKnown /\ mode \in DOMAIN dump_modes) =>
          ((pc = "failed" /\ error.type = "RankUnsafe")
              <=> (num_ranks > 1
                      /\ \E p \in ResolvedStatic \cup ResolvedDynamic : Unsafe(p)))
    /\ (pc = "failed" /\ error.type = "RankUnsafe") =>
          error.name \in {"potential_energy", "virial"}
    /\ num_ranks > 1 =>
          \A k \in DOMAIN calls :
              calls[k].op = "setPeriod" =>
                  calls[k].property \notin {"PotentialEnergy", "Virial"}

\* C11: a construction that fails after the archive handle was opened closes
\* the handle before the error reaches the caller.
HandleClosedOnFailure == pc = "failed" => handle # "open"

\* the effective mode of a mode token
EffectiveMode ==
    IF mode = "w" \/ (mode = "a" /\ ~fileExists) THEN "Overwrite"
    ELSE IF mode = "a" THEN "Append"
    ELSE IF mode = "1" THEN "OneShot"
    ELSE "none"

\* the registrations the arguments ask for, whatever the mode token
RequestedRegistrations ==
    {SetPeriodCall(p, "Constant", 0) : p \in Range(self_static)}
        \cup UNION {Range(DynamicCalls(self_dynamic[i].key, self_dynamic[i].period)) :
                       i \in DOMAIN self_dynamic}

\* C12: the handle is opened with Overwrite for 'w' and for 'a' without a
\* file, Append for 'a' with a file, OneShot for '1'; the registrations of a
\* completed construction depend on the requests alone, so 'a' without a file
\* opens and registers as 'w' does.
ModeResolution ==
    /\ handle = "open" =>
          /\ calls[1] = [op |-> "GetarDumpWriter", mode |-> EffectiveMode]
          /\ \A k \in DOMAIN calls : k > 1 => calls[k].op # "GetarDumpWriter"
    /\ pc = "done" =>
          {calls[k] : k \in {j \in DOMAIN calls : calls[j].op = "setPeriod"}}
              = RequestedRegistrations

ModeResolutionWitness ==
    /\ pc = "done"
    /\ mode = "a"
    /\ ~fileExists
    /\ calls[1].mode = "Overwrite"
    /\ Len(calls) = 5

\* C13: with catalog-valid properties, a mode token outside 'w', 'a', '1' makes
\* construction fail with the unknown-mode error, before the handle is opened
\* and before any registration.
UnknownModeRejected ==
    (Terminal /\ AllKnown /\ mode \notin {"w", "a", "1"}) =>
        /\ pc = "failed"
        /\ error.type = "UnknownMode"
        /\ handle = "unopened"
        /\ calls = <<>>

(***************************************************************************)
(* Properties of the use of a dumper.                                      *)
(***************************************************************************)
\* C14: a writeJSON call with an encodable payload issues exactly one
\* text-record write to the archive handle, tagged with the current timestep
\* when dynamic is true and with -1 when it is false; the record name needs
\* not be a name of the property catalog.
WriteJSONWritesOneRecord ==
    [][(ops' = ops + 1 /\ outcome'.fn = "writeJSON"
            /\ outcome'.contents = "number") =>
          /\ Len(calls') = Len(calls) + 1
          /\ SubSeq(calls', 1, Len(calls)) = calls
          /\ calls'[Len(calls')].op = "writeStr"
          /\ calls'[Len(calls')].name = outcome'.name
          /\ calls'[Len(calls')].timestep =
                 IF outcome'.dynamic THEN timestep ELSE -1]_vars

WriteJSONWritesOneRecordWitness ==
    /\ timestep = 1
    /\ outcome.fn = "writeJSON"
    /\ outcome.dynamic
    /\ outcome.name \notin DOMAIN known_properties
    /\ Len(calls) >= 4
    /\ calls[Len(calls)].op = "writeStr"
    /\ calls[Len(calls)].timestep = 1
    /\ calls[Len(calls) - 1].op = "writeStr"
    /\ calls[Len(calls) - 1].timestep = -1

\* payloads that have no encoding: a cyclic structure, a non-finite number, a
\* value of an unsupported type
Unencodable == {"cyclic", "NaN", "object"}

\* C15: writeJSON fails with an encoding error whenever the payload is not
\* encodable, nothing is then written through the archive handle, and the
\* dumper stays open.
EncodingErrorOnUnencodable ==
    /\ (outcome.fn = "writeJSON" /\ outcome.contents \in Unencodable) =>
          /\ outcome.result \in {"ValueError", "TypeError"}
          /\ handle = "open" \/ \E k \in DOMAIN calls : calls[k].op = "close"
    /\ \A k \in DOMAIN calls :
          calls[k].op = "writeStr" => calls[k].text # "NaN"

\* C16: after close() every later call on the dumper is rejected, and neither
\* a text-record write nor a second close reaches the archive handle after
\* the first close.
ClosingIsTerminal ==
    \A k \in DOMAIN calls : calls[k].op = "close" => k = Len(calls)

\* the Constant registrations of the resolved requests of a static list
ConstantCallsOf(st) ==
    {SetPeriodCall(p, "Constant", 0) : p \in Range(_expandNames(st))}

\* the Discrete registrations of the resolved requests of a list, at one period
DiscreteCallsOf(dy, period) ==
    {SetPeriodCall(p, "Discrete", period) : p \in Range(_expandNames(dy))}

\* C17: a successful immediate opens the archive in Overwrite mode, registers
\* every resolved static property (Constant) and then every resolved dynamic
\* property (Discrete, period 1), forces one write cycle at the current
\* timestep, and closes, in this order and with nothing after.
ImmediateOrder ==
    (entry.fn = "immediate" /\ pc = "returned") =>
        LET S == ConstantCallsOf(entry.static)
            D == DiscreteCallsOf(entry.dynamic, 1)
            nS == Cardinality(S)
            nD == Cardinality(D)
        IN /\ Len(calls) = 1 + nS + nD + 2
           /\ calls[1] = [op |-> "GetarDumpWriter", mode |-> "Overwrite"]
           /\ {calls[k] : k \in 2..(1 + nS)} = S
           /\ {calls[k] : k \in (2 + nS)..(1 + nS + nD)} = D
           /\ calls[Len(calls) - 1] = [op |-> "analyze", timestep |-> timestep]
           /\ calls[Len(calls)] = [op |-> "close"]
           /\ handle = "closed"

ImmediateOrderWitness ==
    /\ entry.fn = "immediate"
    /\ pc = "returned"
    /\ fileExists
    /\ timestep = 1
    /\ Len(entry.static) = 1
    /\ Len(calls) >= 7

\* the dynamic mapping simple stands for: every name of the flat list, with
\* the high_precision flag and the default compression, at the uniform period
SimpleMapping ==
    {Entry(DumpProp(n, entry.high_precision, DefaultCompression), entry.period) :
        n \in Range(entry.dynamic)}

\* C18: simple calls the constructor with the dynamic mapping that gives every
\* name of the flat list the uniform period and the high_precision flag, and
\* with the static list and the mode unchanged; the static registrations of
\* the dumper are those of the static list, whatever high_precision is.
SimpleIsConstructor ==
    (entry.fn = "simple" /\ pc # "simple") =>
        /\ Range(dynamic) = SimpleMapping
        /\ Len(dynamic) = Cardinality(SimpleMapping)
        /\ static = entry.static
        /\ mode = entry.mode
        /\ pc = "done" =>
              /\ {calls[k] : k \in {j \in DOMAIN calls :
                                      calls[j].op = "setPeriod"
                                          /\ calls[j].behavior = "Constant"}}
                     = ConstantCallsOf(entry.static)
              /\ \A k \in DOMAIN calls :
                    (calls[k].op = "setPeriod" /\ calls[k].behavior = "Discrete") =>
                        /\ calls[k].highPrecision = entry.high_precision
                        /\ calls[k].period = entry.period.int

SimpleIsConstructorWitness ==
    /\ entry.fn = "simple"
    /\ pc = "done"
    /\ entry.high_precision
    /\ entry.mode = "a"
    /\ entry.period = IntPeriod(2)
    /\ Len(entry.static) = 1
    /\ Len(self_dynamic) >= 2
    /\ \E k \in DOMAIN calls :
          calls[k].op = "setPeriod" /\ calls[k].behavior = "Constant"
              /\ ~calls[k].highPrecision

(***************************************************************************)
(* Properties of the initialization of the system.                         *)
(***************************************************************************)
\* C19: read_gsd reads the restart file when restart is given and that file
\* exists, and reads filename otherwise.
ReadGsdReadsRestart ==
    (icall.fn = "read_gsd" /\ icalls # <<>>) =>
        icalls[1] = [op |-> "GSDReader",
                     filename |-> IF icall.restart # None /\ icall.restart_exists
                                  THEN icall.restart ELSE icall.filename,
                     frame |-> 0]

\* C20: a call of an init function made while is_initialized() is True raises
\* RuntimeError and leaves system and system_definition as they were.
InitializedOnce ==
    [][(is_initialized /\ icount' = icount + 1) =>
          /\ icall'.result = "RuntimeError"
          /\ system' = system
          /\ system_definition' = system_definition]_vars

InitializedOnceWitness ==
    /\ is_initialized
    /\ icount = 2
    /\ icall.fn = "read_gsd"
    /\ icall.result = "RuntimeError"
    /\ system_definition.source = <<"read_xml", "restart.xml">>

\* C21: is_initialized() is True exactly when an earlier init call completed
\* successfully: it is True after a call that returned, and False as long as
\* the last call failed for a reason other than the system being initialized
\* already (a call made on an initialized system raises RuntimeError).
InitializedMeansCompleted ==
    icall.fn # "none" =>
        /\ icall.result = "ok" => is_initialized
        /\ icall.result \in {"EngineError", "TypeError", "ValueError"} => ~is_initialized

\* the arguments of a create_random_polymers call pass every check made
\* before the separation radii are set
WellFormedPolymers(call) ==
    /\ call.polymers # <<>>
    /\ call.separation # <<>>
    /\ call.box_ok
    /\ \A i \in DOMAIN call.polymers :
          /\ call.polymers[i].missing = None
          /\ call.polymers[i].bond = "linear"
          /\ Range(call.polymers[i].type)
                 \subseteq {call.separation[j].type : j \in DOMAIN call.separation}

\* the smallest bond_len is at least twice every separation radius
BondLengthsFit(call) ==
    \A i \in DOMAIN call.polymers : \A j \in DOMAIN call.separation :
        call.polymers[i].bond_len >= 2 * call.separation[j].r

\* C22: a create_random_polymers call with otherwise valid arguments, made on
\* a system that is not initialized, raises an error exactly when the
\* smallest bond_len is less than twice the largest separation radius; a
\* bond_len equal to twice the radius is accepted.
BondLengthCheck ==
    (icall.fn = "create_random_polymers" /\ WellFormedPolymers(icall)
         /\ icalls # <<>>) =>
        (icall.result # "RuntimeError" <=> BondLengthsFit(icall))

(***************************************************************************)
(* Properties of the fixed tables.                                         *)
(***************************************************************************)
\* the composite names whose expansion ends within k levels of recursion
RECURSIVE ExpandsWithin(_)
ExpandsWithin(k) ==
    IF k = 0 THEN {}
    ELSE LET below == ExpandsWithin(k - 1)
         IN {c \in CompositeNames :
                \A n \in Range(substitutions[c]) : n \notin CompositeNames \/ n \in below}

\* the composite names whose expansion ends within as many levels as there
\* are composite names
SettledComposites == ExpandsWithin(Cardinality(CompositeNames))

\* C23: the substitution table is acyclic, every composite name is expanded
\* within as many levels of recursion as there are composite names, and the
\* expansion of a request sequence ends with no composite name left.
SubstitutionsAcyclic ==
    /\ SettledComposites = CompositeNames
    /\ Expanded => \A i \in DOMAIN result : result[i].name \notin CompositeNames

SubstitutionsAcyclicWitness ==
    /\ epc = "expanded"
    /\ Len(vals) = MaxLen
    /\ vals[1] = Str("viz_aniso_all")
    /\ vals[2] = Str("all")
    /\ Len(result) > MaxLen
    /\ ExpandsWithin(2) # CompositeNames

(***************************************************************************)
(* Properties of failing constructions and dumps.                          *)
(***************************************************************************)
\* C24: in immediate, once the archive handle is opened, it is closed on
\* every exit path: when a registration or the forced write cycle fails, the
\* handle is closed before the error leaves immediate.
ImmediateClosesOnFailure ==
    (entry.fn = "immediate" /\ pc = "failed") => handle # "open"

\* C25: whenever construction fails because a static or dynamic property
\* name is unknown or because the mode token is unknown, the archive handle
\* has not been opened and no registration call has been issued.
ValidationPrecedesOpening ==
    (/\ pc = "failed"
     /\ error.type # "RankUnsafe"
     /\ ~AllKnown \/ mode \notin DOMAIN dump_modes) =>
        (handle = "unopened" /\ calls = <<>>)

\* every request of the static list and of the dynamic mapping is a
\* composite name
OnlyComposites ==
    /\ \A i \in DOMAIN static : RequestOf(static[i]).name \in CompositeNames
    /\ \A i \in DOMAIN dynamic : RequestOf(dynamic[i].key).name \in CompositeNames

\* the primitive names reached from the composite names: the substitutes
\* that are not composite names themselves
SubstitutePrimitives ==
    UNION {Range(substitutions[c]) : c \in CompositeNames} \ CompositeNames

\* the relations between the fixed tables
TableRelations ==
    /\ DOMAIN known_properties = DOMAIN known_resolutions
    /\ Range(bad_mpi_properties) \subseteq CatalogNames
    /\ CompositeNames \cap CatalogNames = {}
    /\ SubstitutePrimitives \subseteq CatalogNames \ Range(bad_mpi_properties)

\* C26: known_properties and known_resolutions have the same keys,
\* bad_mpi_properties is a subset of them, no composite name is a catalog
\* name, and every primitive reached from a composite name is a catalog name
\* that is not rank-unsafe; so a construction whose requests are all
\* composite names never fails with an unknown-property or a rank-unsafe
\* error, at any rank count.
TablesConsistent ==
    /\ TableRelations
    /\ (OnlyComposites /\ pc = "failed") =>
          error.type \notin {"UnknownStatic", "UnknownDynamic", "KeyError", "RankUnsafe"}

TablesConsistentWitness ==
    /\ OnlyComposites
    /\ pc = "done"
    /\ num_ranks = 2
    /\ static # <<>>
    /\ dynamic # <<>>
    /\ Len(calls) > 5

\* C27: a dumper is attached to the step loop only when every static and
\* dynamic registration has been issued: a construction that fails is never
\* attached, and a dumper built with _register=False, as immediate does, is
\* never attached.
AttachedAfterRegistration ==
    /\ analyzer = "attached" =>
          /\ pc = "done"
          /\ register
          /\ RequestedRegistrations
                 \subseteq {calls[k] : k \in {j \in DOMAIN calls : calls[j].op = "setPeriod"}}
    /\ pc = "failed" => analyzer # "attached"
    /\ (~register \/ entry.fn = "immediate") => analyzer = "none"

AttachedAfterRegistrationWitness ==
    /\ analyzer = "attached"
    /\ entry.fn = "simple"
    /\ Len(entry.static) = 1
    /\ Len(self_dynamic) >= 2
    /\ Len(calls) >= 4

====
